---- MODULE Spec2Model ----
(***************************************************************************)
(* A model of src/LacconianOptimizer.py: the constructor of                *)
(* LacconianOptimizer (calibration of the regularizer scaling factors,     *)
(* seeding of the displacement parameter, construction of the SGD          *)
(* optimizer) and the method start() (the fixed-length descent loop, the   *)
(* best-state tracking and the emission of mesh files).                    *)
(*                                                                         *)
(* The collaborators (LacconianCalculus, LaplacianSmoothing,               *)
(* NormalConsistency, Mesh, save_mesh, autograd) are opaque: the scalar a  *)
(* loss evaluator returns on a displaced mesh and the gradient autograd    *)
(* produces are chosen from small sets; on the undisplaced base mesh an    *)
(* evaluator returns the value it returned during calibration.            *)
(*                                                                         *)
(* Scalars are exact rationals extended with +inf and NaN, compared the    *)
(* way IEEE floats compare.  A mesh is represented by the per-vertex       *)
(* offset that derives it from the base mesh; a deformation field (and the *)
(* quality computed from it) by the mesh whose evaluation produced it.     *)
(*                                                                         *)
(* Not modelled: the prints of lines 136-137 and 182-184 and the clock     *)
(* readings, which change no state (display_interval is taken nonzero).    *)
(***************************************************************************)
EXTENDS Integers, Sequences, FiniteSets, TLC

(***************************************************************************)
(* Bounds of the model.                                                    *)
(***************************************************************************)
MaxIter == 3         \* n_iter ranges over 0..MaxIter
MaxInterval == 2     \* save_interval ranges over 1..MaxInterval
NumVertices == 2     \* vertices of the mesh; vertex 1 is constrained

(***************************************************************************)
(* Scalars: a tensor scalar is a rational n/d (kept in lowest terms),      *)
(* +inf, or NaN.  NoValue stands for a Python name or attribute that has   *)
(* not been assigned.                                                      *)
(***************************************************************************)
RECURSIVE GCD(_, _)
GCD(a, b) == IF b = 0 THEN a ELSE GCD(b, a % b)

Abs(x) == IF x < 0 THEN -x ELSE x

Num(n, d) ==
    LET g == GCD(Abs(n), d)
    IN  [k |-> "fin", n |-> n \div g, d |-> d \div g]

Inf == [k |-> "inf", n |-> 0, d |-> 1]
NaN == [k |-> "nan", n |-> 0, d |-> 1]
NoValue == [k |-> "none", n |-> 0, d |-> 1]
Zero == Num(0, 1)
One == Num(1, 1)

IsFinite(a) == a.k = "fin"

\* a + b on tensors (no negative infinity occurs in the model)
Plus(a, b) ==
    IF a.k = "nan" \/ b.k = "nan" THEN NaN
    ELSE IF a.k = "inf" \/ b.k = "inf" THEN Inf
    ELSE LET g == GCD(a.d, b.d)
         IN  Num(a.n * (b.d \div g) + b.n * (a.d \div g), (a.d \div g) * b.d)

\* a * b on tensors
Times(a, b) ==
    IF a.k = "nan" \/ b.k = "nan" THEN NaN
    ELSE IF a.k = "inf" \/ b.k = "inf"
         THEN (IF (a.k = "fin" /\ a.n = 0) \/ (b.k = "fin" /\ b.n = 0)
               THEN NaN ELSE Inf)
    ELSE LET g == GCD(Abs(a.n), b.d)
             h == GCD(Abs(b.n), a.d)
         IN  Num((a.n \div g) * (b.n \div h), (a.d \div h) * (b.d \div g))

\* a / b for finite a and finite b > 0
Over(a, b) == Times(a, [k |-> "fin", n |-> b.d, d |-> b.n])

\* a < b: false as soon as one side is NaN, and inf < inf is false
Less(a, b) ==
    IF a.k = "nan" \/ b.k = "nan" THEN FALSE
    ELSE IF a.k = "inf" THEN FALSE
    ELSE IF b.k = "inf" THEN TRUE
    ELSE LET g == GCD(a.d, b.d)
         IN  a.n * (b.d \div g) < b.n * (a.d \div g)

\* Python's builtin max(a, b): b when b > a, else a
Max(a, b) == IF Less(a, b) THEN b ELSE a

(***************************************************************************)
(* Meshes.  Vertex 1 is constrained, the others are free                   *)
(* (lacconian_calculus.non_constrained_vertices).  A per-vertex tensor is  *)
(* a sequence of rows <<x, y, z>>, in integer units of displacement.       *)
(***************************************************************************)
Vertices == 1..NumVertices
non_constrained_vertices == [j \in 1..(NumVertices - 1) |-> j + 1]

ZeroRow == <<0, 0, 0>>
ZeroTensor(rows) == [j \in 1..rows |-> ZeroRow]
BaseMesh == ZeroTensor(NumVertices)
NoMesh == <<>>

RowPlus(r, s) == <<r[1] + s[1], r[2] + s[2], r[3] + s[3]>>
RowScale(c, r) == <<c * r[1], c * r[2], c * r[3]>>


(***************************************************************************)
(* The environment: values the opaque collaborators produce.               *)
(***************************************************************************)
Regs == {"ls", "nc", "va"}   \* laplacian smoothing, normal consistency, face-area variance

EpsDen == 1000
Eps == Num(1, EpsDen)        \* eps = 1e-3

NoPerc == Num(-1, 1)         \* the percentage -1: "weight = 1"

\* the linear deformation LacconianCalculus predicts on the unmodified mesh
BaseDeformation == [v \in Vertices |-> <<2, 0, -1>>]
\* the rows torch.distributions.Uniform(0, 1e-4) / Normal(0, 1e-4) may sample
UniformSamples == {<<1, 0, 1>>}
NormalSamples == {<<-1, 1, 0>>}
\* what the structural loss may evaluate to on a displaced mesh
StructVals == {Num(1, 1), Num(2, 1), Inf}
\* what a regularizer may evaluate to on a displaced mesh
RegVals == {Num(1, 2000), Num(3, 1)}
\* the gradient rows autograd may produce for a free vertex
GradRows == {ZeroRow, <<1, 0, -1>>}

InitModes == {"stress_aided", "uniform", "normal", "zeros"}

VARIABLES
    \* arguments of __init__ and the values of the base mesh
    init_mode, with_reg, loss_perc, lr, momentum, base_loss, base_term,
    \* the values the structural loss takes on displaced meshes in this run
    struct_vals,
    \* arguments of start(), how often the caller calls it, the calls made
    n_iter, save, save_interval, wandb_run, n_calls, calls,
    \* attributes of the optimizer object and of its collaborators
    scaling_factor, displacements, velocity, grad, vertex_deformations, graph_held,
    \* control state and local variables of start()
    pc, raised, iter_count, current_iteration, iteration_mesh, quality,
    structural_loss, reg_value, loss, best_loss, best_iteration, at_best,
    best_mesh, best_quality,
    \* what the collaborators received: files written by save_mesh, the
    \* per-iteration log dictionaries, the mappings delivered to wandb_run,
    \* and the calls the current call of start() made on the optimizer, on
    \* autograd and on the structural-loss collaborator, in order
    files, iter_log, wandb_log, wandb_summary, op_log

ctorArgs == <<init_mode, with_reg, loss_perc, lr, momentum, base_loss, base_term,
              struct_vals>>
startArgs == <<n_iter, save, save_interval, wandb_run, n_calls, calls>>
selfVars == <<scaling_factor, displacements, velocity, grad, vertex_deformations, graph_held>>
bestVars == <<best_loss, best_iteration, at_best, best_mesh, best_quality>>
iterVars == <<iteration_mesh, quality, structural_loss, reg_value, loss>>
loopVars == <<iter_count, current_iteration>>
outVars == <<files, iter_log, wandb_log, wandb_summary, op_log>>
vars == <<ctorArgs, startArgs, selfVars, bestVars, iterVars, loopVars, outVars, pc, raised>>

Unbound == -1                \* a local integer name that was never assigned
NoRegValues == [r \in Regs |-> NoValue]
NoDiagnostics == [structural_loss |-> NoValue, max_displacement_norm |-> NoMesh,
                  max_deformation_norm |-> NoMesh, reg_value |-> NoRegValues]

(***************************************************************************)
(* __init__, lines 13-71.                                                  *)
(***************************************************************************)
\* a variant of the scaling factor without the eps floor
ScalingFactorWithoutFloor(perc, loss_0, term_0) ==
    IF perc = NoPerc THEN One
    ELSE Over(Times(perc, loss_0), term_0)

\* lines 28-32 (37-41, 45-49): the scaling factor of one enabled regularizer
ScalingFactor(perc, loss_0, term_0) ==
    IF perc = NoPerc THEN One
    ELSE Over(Times(perc, loss_0), Max(term_0, Eps))

\* a variant of the calibration that divides the bare percentage
CalibrateWithoutLoss(loss_0) ==
    [r \in Regs |-> IF with_reg[r]
                    THEN ScalingFactor(loss_perc[r], One, base_term[r])
                    ELSE NoValue]

\* lines 26-49: the factor attributes exist only for the enabled regularizers
Calibrate(loss_0) ==
    [r \in Regs |-> IF with_reg[r]
                    THEN ScalingFactor(loss_perc[r], loss_0, base_term[r])
                    ELSE NoValue]

\* a variant of the seeding that falls back to zeros for an unknown policy
SeedsWithDefault(mode) ==
    LET rows == Len(non_constrained_vertices)
    IN  CASE mode = "stress_aided" ->
               {[j \in 1..rows |-> RowScale(-1, BaseDeformation[non_constrained_vertices[j]])]}
          [] mode = "uniform" -> {[j \in 1..rows |-> s] : s \in UniformSamples}
          [] mode = "normal" -> {[j \in 1..rows |-> s] : s \in NormalSamples}
          [] OTHER -> {ZeroTensor(rows)}

\* lines 53-67: the tensors init_mode may seed the displacement parameter with
Seeds(mode) ==
    LET rows == Len(non_constrained_vertices)
    IN  CASE mode = "stress_aided" ->
               {[j \in 1..rows |-> RowScale(-1, BaseDeformation[non_constrained_vertices[j]])]}
          [] mode = "uniform" -> {[j \in 1..rows |-> s] : s \in UniformSamples}
          [] mode = "normal" -> {[j \in 1..rows |-> s] : s \in NormalSamples}
          [] mode = "zeros" -> {ZeroTensor(rows)}
          [] OTHER -> {}

Construct ==
    /\ pc = "new"
    /\ scaling_factor' = Calibrate(base_loss)
    \* line 19: the calibration call leaves the base mesh's deformation field
    /\ vertex_deformations' = BaseMesh
    /\ graph_held' = TRUE
    /\ IF Seeds(init_mode) = {}
       THEN \* no branch of lines 54-67 assigns self.displacements: line 71 raises
            /\ pc' = "raised"
            /\ raised' = "AttributeError"
            /\ UNCHANGED <<displacements, velocity>>
       ELSE /\ \E d \in Seeds(init_mode) : displacements' = d
            /\ velocity' = ZeroTensor(Len(non_constrained_vertices))
            /\ pc' = "ready"
            /\ UNCHANGED raised
    /\ UNCHANGED <<ctorArgs, startArgs, grad, bestVars, iterVars, loopVars, outVars>>


(***************************************************************************)
(* start(), lines 73-189.                                                  *)
(***************************************************************************)
Raise(exception) ==
    /\ pc' = "raised"
    /\ raised' = exception

\* one operation of an iteration, as the collaborators see it
Op(name, i) == [op |-> name, iteration |-> i]

\* a variant of the call that seeds the parameter and the velocity anew
StartReseeding ==
    /\ pc \in {"ready", "done"}
    /\ calls < n_calls
    /\ calls' = calls + 1
    /\ displacements' = ZeroTensor(Len(displacements))
    /\ velocity' = ZeroTensor(Len(velocity))
    /\ best_loss' = Inf
    /\ best_iteration' = Unbound
    /\ at_best' = NoDiagnostics
    /\ best_mesh' = NoMesh
    /\ best_quality' = NoMesh
    /\ iteration_mesh' = NoMesh
    /\ quality' = NoMesh
    /\ structural_loss' = NoValue
    /\ reg_value' = NoRegValues
    /\ loss' = NoValue
    /\ current_iteration' = 0
    /\ iter_count' = 0
    /\ iter_log' = <<>>
    /\ op_log' = <<>>
    /\ pc' = "for"
    /\ UNCHANGED <<ctorArgs, n_iter, save, save_interval, wandb_run, n_calls,
                   scaling_factor, grad, vertex_deformations, graph_held,
                   files, wandb_log, wandb_summary, raised>>

\* lines 73-77: a fresh call frame; best_loss starts at +inf.  The object
\* (the displacement parameter, the optimizer, the collaborators) is the one
\* __init__ built, or the one the previous call of start() left
Start ==
    /\ pc \in {"ready", "done"}
    /\ calls < n_calls
    /\ calls' = calls + 1
    /\ best_loss' = Inf
    /\ best_iteration' = Unbound
    /\ at_best' = NoDiagnostics
    /\ best_mesh' = NoMesh
    /\ best_quality' = NoMesh
    /\ iteration_mesh' = NoMesh
    /\ quality' = NoMesh
    /\ structural_loss' = NoValue
    /\ reg_value' = NoRegValues
    /\ loss' = NoValue
    /\ current_iteration' = 0
    /\ iter_count' = 0
    /\ iter_log' = <<>>
    /\ op_log' = <<>>
    /\ pc' = "for"
    /\ UNCHANGED <<ctorArgs, n_iter, save, save_interval, wandb_run, n_calls, selfVars,
                   files, wandb_log, wandb_summary, raised>>

\* a variant of the loop head that stops once an iteration did not improve
ForLoopUntilNoImprovement ==
    /\ pc = "for"
    /\ IF iter_count < n_iter /\ (iter_count = 0 \/ best_iteration = current_iteration)
       THEN /\ current_iteration' = iter_count
            /\ iter_count' = iter_count + 1
            /\ pc' = "zero_grad"
       ELSE /\ pc' = "final_save"
            /\ UNCHANGED loopVars
    /\ UNCHANGED <<ctorArgs, startArgs, selfVars, bestVars, iterVars, outVars, raised>>

\* line 78: for current_iteration in range(n_iter)
ForLoop ==
    /\ pc = "for"
    /\ IF iter_count < n_iter
       THEN /\ current_iteration' = iter_count
            /\ iter_count' = iter_count + 1
            /\ pc' = "zero_grad"
       ELSE /\ pc' = "final_save"
            /\ UNCHANGED loopVars
    /\ UNCHANGED <<ctorArgs, startArgs, selfVars, bestVars, iterVars, outVars, raised>>

\* a variant that clears the parameter together with its gradient
ZeroGradClearingParameter ==
    /\ pc = "zero_grad"
    /\ grad' = NoMesh
    /\ displacements' = ZeroTensor(Len(displacements))
    /\ op_log' = Append(op_log, Op("zero_grad", current_iteration))
    /\ pc' = "build_mesh"
    /\ UNCHANGED <<ctorArgs, startArgs, scaling_factor, velocity,
                   vertex_deformations, graph_held, bestVars, iterVars, loopVars,
                   files, iter_log, wandb_log, wandb_summary, raised>>

\* line 82: self.optimizer.zero_grad(set_to_none=True)
ZeroGrad ==
    /\ pc = "zero_grad"
    /\ grad' = NoMesh
    /\ op_log' = Append(op_log, Op("zero_grad", current_iteration))
    /\ pc' = "build_mesh"
    /\ UNCHANGED <<ctorArgs, startArgs, scaling_factor, displacements, velocity,
                   vertex_deformations, graph_held, bestVars, iterVars, loopVars,
                   files, iter_log, wandb_log, wandb_summary, raised>>

\* a variant of the offset that moves every vertex, the constrained ones too
OffsetEveryVertex(disp) ==
    [v \in Vertices |-> disp[1]]

\* lines 88-89: zero at the constrained vertices, the parameter rows at the free ones
Offset(disp) ==
    [v \in Vertices |->
        IF \E j \in 1..Len(non_constrained_vertices) : non_constrained_vertices[j] = v
        THEN disp[CHOOSE j \in 1..Len(non_constrained_vertices) :
                      non_constrained_vertices[j] = v]
        ELSE ZeroRow]

\* lines 88-94: the candidate mesh of the iteration
BuildMesh ==
    /\ pc = "build_mesh"
    /\ iteration_mesh' = Offset(displacements)
    /\ pc' = "checkpoint"
    /\ UNCHANGED <<ctorArgs, startArgs, selfVars, bestVars, quality, structural_loss,
                   reg_value, loss, loopVars, outVars, raised>>

\* a variant of the test that counts iterations from one
IsCheckpointIterationFromOne(i, interval) == (i + 1) % interval = 0

\* line 97: current_iteration % save_interval == 0
IsCheckpointIteration(i, interval) == i % interval = 0

\* lines 99-101: the periodic file; its quality is the norm of the deformation
\* field the structural-loss collaborator holds when the file is written
PeriodicFile(i, mesh, q) ==
    [kind |-> "periodic", index |-> i, mesh |-> mesh, quality |-> q]

\* lines 96-101
Checkpoint ==
    /\ pc = "checkpoint"
    /\ IF save_interval = 0
       THEN /\ Raise("ZeroDivisionError")
            /\ UNCHANGED <<quality, files>>
       ELSE /\ IF IsCheckpointIteration(current_iteration, save_interval) /\ save
               THEN /\ quality' = vertex_deformations
                    /\ files' = Append(files, PeriodicFile(current_iteration,
                                           iteration_mesh, vertex_deformations))
               ELSE UNCHANGED <<quality, files>>
            /\ pc' = "evaluate"
            /\ UNCHANGED raised
    /\ UNCHANGED <<ctorArgs, startArgs, selfVars, bestVars, iteration_mesh,
                   structural_loss, reg_value, loss, loopVars, iter_log, wandb_log,
                   wandb_summary, op_log>>

\* the values the structural loss may return on a mesh
StructuralOutcomes(mesh) == IF mesh = BaseMesh THEN {base_loss} ELSE struct_vals

\* the values the enabled regularizers may return on a mesh (lines 116-131:
\* a disabled regularizer is not evaluated)
RegOutcomes(mesh) ==
    {rv \in [Regs -> RegVals \cup {NoValue} \cup {base_term[r] : r \in Regs}] :
        \A r \in Regs :
            IF with_reg[r]
            THEN IF mesh = BaseMesh THEN rv[r] = base_term[r] ELSE rv[r] \in RegVals
            ELSE rv[r] = NoValue}

\* a variant that adds the raw value of an enabled regularizer
AddTermUnweighted(acc, r, rv) ==
    IF with_reg[r] THEN Plus(acc, rv[r]) ELSE acc

\* lines 119, 125, 131: loss += scaling_factor * value, for an enabled regularizer
AddTerm(acc, r, rv) ==
    IF with_reg[r] THEN Plus(acc, Times(scaling_factor[r], rv[r])) ELSE acc

\* lines 104-131: the total objective
TotalLoss(structural, rv) ==
    AddTerm(AddTerm(AddTerm(Plus(Zero, structural), "ls", rv), "nc", rv), "va", rv)

\* lines 85-133: the log dictionary of the iteration
LogDict(i, mesh, structural, rv, total) ==
    [iteration |-> i, mesh |-> mesh, max_displacement_norm |-> mesh,
     structural_loss |-> structural, max_load_deformation_norm |-> mesh,
     reg_value |-> rv, loss |-> total]

\* lines 103-133: the structural loss (which leaves the deformation field of
\* the candidate mesh in the collaborator), then the enabled regularizers
Evaluate ==
    /\ pc = "evaluate"
    /\ \E s \in StructuralOutcomes(iteration_mesh), rv \in RegOutcomes(iteration_mesh) :
          /\ structural_loss' = s
          /\ reg_value' = rv
          /\ loss' = TotalLoss(s, rv)
          /\ iter_log' = Append(iter_log, LogDict(current_iteration, iteration_mesh,
                                                  s, rv, TotalLoss(s, rv)))
    /\ vertex_deformations' = iteration_mesh
    /\ graph_held' = TRUE
    /\ op_log' = Append(op_log, Op("structural_loss", current_iteration))
    /\ pc' = "track"
    /\ UNCHANGED <<ctorArgs, startArgs, scaling_factor, displacements, velocity, grad,
                   bestVars, iteration_mesh, quality, loopVars, files, wandb_log,
                   wandb_summary, raised>>

\* a variant of the test that also passes when the two do not compare
ImprovesUnlessWorse(l, best) == ~(Less(best, l) \/ l = best)

\* line 140: loss < best_loss
Improves(l, best) == Less(l, best)

\* lines 145-153: the diagnostics kept with the best iteration
Diagnostics ==
    [structural_loss |-> structural_loss,
     max_displacement_norm |-> iteration_mesh,
     max_deformation_norm |-> vertex_deformations,
     reg_value |-> reg_value]

\* a variant of the iteration without the comparison of line 140
TrackSkipped ==
    /\ pc = "track"
    /\ pc' = "wandb"
    /\ UNCHANGED <<ctorArgs, startArgs, selfVars, bestVars, iterVars, loopVars, outVars,
                   raised>>

\* lines 139-157
Track ==
    /\ pc = "track"
    /\ IF Improves(loss, best_loss)
       THEN /\ best_loss' = loss
            /\ best_iteration' = current_iteration
            /\ at_best' = Diagnostics
            /\ IF save
               THEN /\ best_mesh' = iteration_mesh
                    /\ best_quality' = quality
               ELSE UNCHANGED <<best_mesh, best_quality>>
       ELSE UNCHANGED bestVars
    /\ pc' = "wandb"
    /\ UNCHANGED <<ctorArgs, startArgs, selfVars, iterVars, loopVars, outVars, raised>>

\* lines 162-168 read these names; each is bound only by lines 142-153
SummaryBound ==
    /\ best_iteration # Unbound
    /\ \A r \in Regs : at_best.reg_value[r] # NoValue

\* lines 162-168 assign the summary key by key, in the order best_iteration,
\* the three diagnostics, laplacian smoothing, normal consistency, face areas:
\* what is written before the first name that is not bound
WrittenBeforeFailure ==
    [best_iteration |-> best_iteration,
     at_best |-> [at_best EXCEPT !.reg_value =
                     [r \in Regs |->
                         IF \/ r = "ls"
                            \/ r = "nc" /\ at_best.reg_value["ls"] # NoValue
                            \/ r = "va" /\ at_best.reg_value["ls"] # NoValue
                                        /\ at_best.reg_value["nc"] # NoValue
                         THEN at_best.reg_value[r]
                         ELSE NoValue]]]

\* lines 160-168
Wandb ==
    /\ pc = "wandb"
    /\ IF wandb_run
       THEN /\ wandb_log' = Append(wandb_log, iter_log[Len(iter_log)])
            /\ IF SummaryBound
               THEN /\ wandb_summary' = [best_iteration |-> best_iteration,
                                         at_best |-> at_best]
                    /\ pc' = "backward"
                    /\ UNCHANGED raised
               ELSE /\ Raise("UnboundLocalError")
                    /\ wandb_summary' = IF best_iteration = Unbound
                                        THEN wandb_summary
                                        ELSE WrittenBeforeFailure
       ELSE /\ pc' = "backward"
            /\ UNCHANGED <<wandb_log, wandb_summary, raised>>
    /\ UNCHANGED <<ctorArgs, startArgs, selfVars, bestVars, iterVars, loopVars,
                   files, iter_log, op_log>>

\* line 172: loss.backward() leaves a gradient on the displacement parameter
Backward ==
    /\ pc = "backward"
    /\ \E g \in GradRows : grad' = [j \in 1..Len(displacements) |-> g]
    /\ op_log' = Append(op_log, Op("backward", current_iteration))
    /\ pc' = "step"
    /\ UNCHANGED <<ctorArgs, startArgs, scaling_factor, displacements, velocity,
                   vertex_deformations, graph_held, bestVars, iterVars, loopVars,
                   files, iter_log, wandb_log, wandb_summary, raised>>

\* a variant of the velocity that forgets the previous one
NewVelocityWithoutMomentum(v, g) == g

\* torch.optim.SGD (line 71): v <- momentum * v + grad
NewVelocity(v, g) == [j \in 1..Len(v) |-> RowPlus(RowScale(momentum, v[j]), g[j])]
\* param <- param - lr * v
NewParam(param, v) == [j \in 1..Len(param) |-> RowPlus(param[j], RowScale(-lr, v[j]))]

\* line 174: self.optimizer.step()
Step ==
    /\ pc = "step"
    /\ velocity' = NewVelocity(velocity, grad)
    /\ displacements' = NewParam(displacements, NewVelocity(velocity, grad))
    /\ op_log' = Append(op_log, Op("step", current_iteration))
    /\ pc' = "clean"
    /\ UNCHANGED <<ctorArgs, startArgs, scaling_factor, grad, vertex_deformations,
                   graph_held, bestVars, iterVars, loopVars, files, iter_log,
                   wandb_log, wandb_summary, raised>>

\* lacconian_calculus.clean_attributes(): releases the differentiation graph
\* of the last call; the deformation values stay
clean_attributes(held) == FALSE

\* a variant that releases the collaborator state only after an improvement
CleanAfterImprovement ==
    /\ pc = "clean"
    /\ IF best_iteration = current_iteration
       THEN /\ graph_held' = clean_attributes(graph_held)
            /\ op_log' = Append(op_log, Op("clean_attributes", current_iteration))
       ELSE UNCHANGED <<graph_held, op_log>>
    /\ pc' = "for"
    /\ UNCHANGED <<ctorArgs, startArgs, scaling_factor, displacements, velocity, grad,
                   vertex_deformations, bestVars, iterVars, loopVars, files, iter_log,
                   wandb_log, wandb_summary, raised>>

\* line 177
Clean ==
    /\ pc = "clean"
    /\ graph_held' = clean_attributes(graph_held)
    /\ op_log' = Append(op_log, Op("clean_attributes", current_iteration))
    /\ pc' = "for"
    /\ UNCHANGED <<ctorArgs, startArgs, scaling_factor, displacements, velocity, grad,
                   vertex_deformations, bestVars, iterVars, loopVars, files, iter_log,
                   wandb_log, wandb_summary, raised>>

\* line 188-189: the best file
BestFile(i, mesh, q) ==
    [kind |-> "best", index |-> i, mesh |-> mesh, quality |-> q]

\* a variant of the final save without the test n_iter > 0
FinalSaveWithoutIterationTest ==
    /\ pc = "final_save"
    /\ IF save
       THEN IF best_iteration = Unbound
            THEN /\ Raise("UnboundLocalError")
                 /\ UNCHANGED files
            ELSE /\ files' = Append(files, BestFile(best_iteration, best_mesh, best_quality))
                 /\ pc' = "done"
                 /\ UNCHANGED raised
       ELSE /\ pc' = "done"
            /\ UNCHANGED <<files, raised>>
    /\ UNCHANGED <<ctorArgs, startArgs, selfVars, bestVars, iterVars, loopVars,
                   iter_log, wandb_log, wandb_summary, op_log>>

\* lines 186-189: best_iteration, best_mesh and best_quality are bound only
\* if some iteration passed the test of line 140
FinalSave ==
    /\ pc = "final_save"
    /\ IF save /\ n_iter > 0
       THEN IF best_iteration = Unbound
            THEN /\ Raise("UnboundLocalError")
                 /\ UNCHANGED files
            ELSE /\ files' = Append(files, BestFile(best_iteration, best_mesh, best_quality))
                 /\ pc' = "done"
                 /\ UNCHANGED raised
       ELSE /\ pc' = "done"
            /\ UNCHANGED <<files, raised>>
    /\ UNCHANGED <<ctorArgs, startArgs, selfVars, bestVars, iterVars, loopVars,
                   iter_log, wandb_log, wandb_summary, op_log>>

Next ==
    \/ Construct
    \/ Start
    \/ ForLoop
    \/ ZeroGrad
    \/ BuildMesh
    \/ Checkpoint
    \/ Evaluate
    \/ Track
    \/ Wandb
    \/ Backward
    \/ Step
    \/ Clean
    \/ FinalSave

(***************************************************************************)
(* Initial states: the optimizer before construction, for given arguments. *)
(***************************************************************************)
\* one regularizer's switch, percentage and value on the base mesh
RegSetups ==
    {[on |-> FALSE, perc |-> NoPerc, term_0 |-> Num(3, 1)],
     [on |-> TRUE, perc |-> NoPerc, term_0 |-> Num(3, 1)],
     [on |-> TRUE, perc |-> Num(1, 2), term_0 |-> Num(1, 2000)],
     [on |-> TRUE, perc |-> Num(1, 2), term_0 |-> Num(3, 1)]}

InitFull(setups, modes, iters, saves, intervals, sinks, rates, momenta, vals, ncalls) ==
    /\ \E c \in setups :
          /\ with_reg = [r \in Regs |-> c[r].on]
          /\ loss_perc = [r \in Regs |-> c[r].perc]
          /\ base_term = [r \in Regs |-> c[r].term_0]
    /\ init_mode \in modes
    /\ lr \in rates
    /\ momentum \in momenta
    /\ struct_vals = vals
    /\ n_calls = ncalls
    /\ calls = 0
    /\ base_loss = Num(2, 1)
    /\ n_iter \in iters
    /\ save \in saves
    /\ save_interval \in intervals
    /\ wandb_run \in sinks
    /\ scaling_factor = NoRegValues
    /\ displacements = NoMesh
    /\ velocity = NoMesh
    /\ grad = NoMesh
    /\ vertex_deformations = NoMesh
    /\ graph_held = FALSE
    /\ pc = "new"
    /\ raised = "none"
    /\ iter_count = 0
    /\ current_iteration = 0
    /\ iteration_mesh = NoMesh
    /\ quality = NoMesh
    /\ structural_loss = NoValue
    /\ reg_value = NoRegValues
    /\ loss = NoValue
    /\ best_loss = NoValue
    /\ best_iteration = Unbound
    /\ at_best = NoDiagnostics
    /\ best_mesh = NoMesh
    /\ best_quality = NoMesh
    /\ files = <<>>
    /\ iter_log = <<>>
    /\ wandb_log = <<>>
    /\ wandb_summary = <<>>
    /\ op_log = <<>>

\* one call of start() on an optimizer with lr = 1 and momentum = 1 whose
\* structural loss is finite or +inf
InitWith(setups, modes, iters, saves, intervals, sinks) ==
    InitFull(setups, modes, iters, saves, intervals, sinks, {1}, {1}, StructVals, 1)

\* the run of __main__ (lines 191-195, no metrics sink) with few regularizer
\* setups, a zero and a nonzero seed: the loop, the best tracking and the files
TrackingSetups ==
    {[r \in Regs |-> [on |-> FALSE, perc |-> NoPerc, term_0 |-> Num(3, 1)]],
     [r \in Regs |-> IF r = "ls"
                     THEN [on |-> TRUE, perc |-> Num(1, 2), term_0 |-> Num(3, 1)]
                     ELSE [on |-> FALSE, perc |-> NoPerc, term_0 |-> Num(3, 1)]]}

Init == InitWith(TrackingSetups, {"zeros", "uniform"}, 0..MaxIter, BOOLEAN,
                 1..MaxInterval, {FALSE})

Spec == Init /\ [][Next]_vars

\* the same run with every combination of regularizer setups, every seeding
\* policy, few iterations and no files: the calibration and the objective
ObjectiveIter == 1
ObjectiveSetups == [Regs -> RegSetups]

InitObjective == InitWith(ObjectiveSetups, InitModes, 0..ObjectiveIter, {FALSE},
                          {1}, {FALSE})

SpecObjective == InitObjective /\ [][Next]_vars


(***************************************************************************)
(* Vocabulary of the properties.                                           *)
(***************************************************************************)
\* start() has returned, or has raised
StartEnded == pc = "done" \/ (pc = "raised" /\ raised # "AttributeError")

\* the best tracking of the last logged iteration has been done
Tracked == Len(iter_log) > 0 /\ pc # "track"

\* no observed loss is smaller than the one of log entry i
IsSmallest(i) == \A j \in 1..Len(iter_log) : ~Less(iter_log[j].loss, iter_log[i].loss)

\* the first iteration that has the smallest loss observed so far
FirstSmallest ==
    iter_log[CHOOSE i \in 1..Len(iter_log) :
                 IsSmallest(i) /\ \A j \in 1..(i - 1) : ~IsSmallest(j)].iteration

PeriodicFiles == SelectSeq(files, LAMBDA f : f.kind = "periodic")
BestFiles == SelectSeq(files, LAMBDA f : f.kind = "best")

\* the log entry of iteration i
LogOf(i) == iter_log[CHOOSE j \in 1..Len(iter_log) : iter_log[j].iteration = i]
Logged(i) == \E j \in 1..Len(iter_log) : iter_log[j].iteration = i

(***************************************************************************)
(* C1: during any run of start(), after every iteration best_iteration is  *)
(* the index of the smallest total loss observed so far, the first one     *)
(* when several iterations share it.                                       *)
(* The code leaves best_iteration unassigned as long as no loss is         *)
(* strictly below the initial best_loss = +inf.                            *)
(***************************************************************************)
C1_BestIsFirstSmallest == Tracked => best_iteration = FirstSmallest

\* the other half of C1, which the code satisfies: best_loss never increases
C1_BestLossNonIncreasing ==
    [][pc # "ready" => ~Less(best_loss, best_loss')]_vars

(***************************************************************************)
(* C2: with save enabled and n_iter >= 1, for every sequence of losses,    *)
(* start() writes exactly one best file, after all periodic files, named   *)
(* by best_iteration with 0 <= best_iteration < n_iter.                    *)
(* After a run whose losses are all +inf line 188 raises instead.          *)
(***************************************************************************)
C2_OneBestFile ==
    (StartEnded /\ save /\ n_iter >= 1) =>
        /\ Len(BestFiles) = 1
        /\ files[Len(files)].kind = "best"
        /\ files[Len(files)].index = best_iteration
        /\ best_iteration \in 0..(n_iter - 1)


(***************************************************************************)
(* C3: with save enabled and save_interval >= 1 the periodic files are     *)
(* exactly one file per iteration index i in 0..n_iter-1 with              *)
(* i mod save_interval = 0, written in increasing order of i and holding   *)
(* the candidate mesh of iteration i, whether or not that iteration        *)
(* improves the best loss; with save disabled there is none.               *)
(***************************************************************************)
\* the multiples of interval below n, in increasing order
ExpectedCheckpoints(n, interval) ==
    [j \in 1..((n + interval - 1) \div interval) |-> (j - 1) * interval]

\* the number of iterations that have passed lines 96-101
CheckpointsPassed ==
    IF pc \in {"zero_grad", "build_mesh", "checkpoint"} THEN iter_count - 1 ELSE iter_count

\* C3: the periodic files are those of the multiples of save_interval, in
\* order, each holding its iteration's candidate mesh
C3_PeriodicCheckpoints ==
    save_interval >= 1 =>
        /\ [j \in 1..Len(PeriodicFiles) |-> PeriodicFiles[j].index]
             = IF save THEN ExpectedCheckpoints(CheckpointsPassed, save_interval) ELSE <<>>
        /\ StartEnded => CheckpointsPassed = n_iter
        /\ \A j \in 1..Len(PeriodicFiles) :
              Logged(PeriodicFiles[j].index) =>
                  PeriodicFiles[j].mesh = LogOf(PeriodicFiles[j].index).mesh

\* a finished run of three iterations with interval 2: files 0 and 2, and
\* iteration 2 was written although it did not become the best
C3_Witness ==
    /\ pc = "done" /\ save /\ n_iter = 3 /\ save_interval = 2
    /\ Len(PeriodicFiles) = 2
    /\ PeriodicFiles[2].index = 2
    /\ best_iteration # 2

(***************************************************************************)
(* C4: the quality of the periodic file of iteration i is the deformation  *)
(* norm obtained by evaluating the structural loss on the mesh written in  *)
(* that file.                                                              *)
(* The code reads the deformation field at line 100, before the structural *)
(* loss of the iteration is evaluated at line 107: the file carries the    *)
(* deformation of the previously evaluated mesh.                           *)
(***************************************************************************)
C4_QualityOfOwnMesh ==
    \A j \in 1..Len(PeriodicFiles) : PeriodicFiles[j].quality = PeriodicFiles[j].mesh

(***************************************************************************)
(* C5: with save enabled, after every iteration all fields of the          *)
(* best-state snapshot belong to iteration best_iteration: the             *)
(* diagnostics, the mesh and the quality (the deformation norm of that     *)
(* mesh); the best file carries that mesh and that quality.                *)
(* The code stores in best_quality the value last computed at line 100.    *)
(***************************************************************************)
C5_SnapshotOfOneIteration ==
    (Tracked /\ save /\ best_iteration # Unbound) =>
        /\ at_best.structural_loss = LogOf(best_iteration).structural_loss
        /\ at_best.reg_value = LogOf(best_iteration).reg_value
        /\ at_best.max_displacement_norm = LogOf(best_iteration).max_displacement_norm
        /\ at_best.max_deformation_norm = LogOf(best_iteration).max_load_deformation_norm
        /\ best_loss = LogOf(best_iteration).loss
        /\ best_mesh = LogOf(best_iteration).mesh
        /\ best_quality = LogOf(best_iteration).mesh
        /\ \A j \in 1..Len(BestFiles) :
              /\ BestFiles[j].mesh = LogOf(best_iteration).mesh
              /\ BestFiles[j].quality = LogOf(best_iteration).mesh

(***************************************************************************)
(* C6: start() with n_iter = 0 performs no iteration, writes no file for   *)
(* every value of save, and ends without raising.                          *)
(***************************************************************************)
C6_NoIterationNoFile ==
    n_iter = 0 =>
        /\ iter_count = 0
        /\ iter_log = <<>>
        /\ files = <<>>
        /\ raised = "none"
        /\ pc \in {"new", "ready", "for", "final_save", "done"}
        /\ pc # "done" => ENABLED Next

C6_Witness == n_iter = 0 /\ save /\ pc = "done"

(***************************************************************************)
(* C7: start() performs exactly the iterations 0..n_iter-1, each once and  *)
(* in increasing order, for every sequence of losses, and then leaves the  *)
(* loop: no early stop, no iteration skipped or repeated.                  *)
(***************************************************************************)
C7_FixedIterationBudget ==
    /\ \A j \in 1..Len(iter_log) : iter_log[j].iteration = j - 1
    /\ iter_count <= n_iter
    /\ Len(iter_log) = (IF pc \in {"zero_grad", "build_mesh", "checkpoint", "evaluate"}
                        THEN iter_count - 1 ELSE iter_count)
    /\ (pc = "final_save" \/ StartEnded) => Len(iter_log) = n_iter
    /\ pc \notin {"done", "raised"} => ENABLED Next

\* three iterations were run although the loss never changed
C7_Witness ==
    /\ pc = "done" /\ n_iter = 3 /\ Len(iter_log) = 3
    /\ iter_log[1].loss = iter_log[2].loss
    /\ iter_log[2].loss = iter_log[3].loss
    /\ IsFinite(iter_log[1].loss)


(***************************************************************************)
(* C8: in every iteration the total objective is the structural loss of    *)
(* the candidate mesh plus scaling_factor * value for each enabled         *)
(* regularizer; a disabled regularizer contributes nothing (it is not      *)
(* evaluated), and with all three enabled at percentage -1 the total is    *)
(* the unweighted sum of the four raw values.                              *)
(***************************************************************************)
Contribution(e, r) ==
    IF with_reg[r] THEN Times(scaling_factor[r], e.reg_value[r]) ELSE Zero

\* C8: every logged total is the structural loss plus the weighted enabled terms
C8_TotalObjective ==
    \A j \in 1..Len(iter_log) :
        LET e == iter_log[j]
        IN  /\ e.loss = Plus(Plus(Plus(e.structural_loss, Contribution(e, "ls")),
                                  Contribution(e, "nc")), Contribution(e, "va"))
            /\ \A r \in Regs : ~with_reg[r] => e.reg_value[r] = NoValue
            /\ (\A r \in Regs : with_reg[r] /\ loss_perc[r] = NoPerc) =>
                  e.loss = Plus(Plus(Plus(e.structural_loss, e.reg_value["ls"]),
                                     e.reg_value["nc"]), e.reg_value["va"])
            /\ (pc = "track" /\ j = Len(iter_log)) => loss = e.loss

\* an iteration on a displaced mesh with the three regularizers at -1
C8_Witness ==
    /\ \A r \in Regs : with_reg[r] /\ loss_perc[r] = NoPerc
    /\ Len(iter_log) >= 1
    /\ iter_log[1].mesh # BaseMesh
    /\ IsFinite(iter_log[1].loss)
    /\ Less(iter_log[1].structural_loss, iter_log[1].loss)

(***************************************************************************)
(* C9: after construction the scaling factor of each enabled regularizer   *)
(* is exactly 1 when its percentage is -1, and otherwise                   *)
(* p * loss_0 / max(term_0, eps) with eps = 1e-3; no step of start()       *)
(* changes a scaling factor.                                               *)
(***************************************************************************)
\* the larger of term_0 and eps
Floored(term_0) == IF Less(term_0, Eps) THEN Eps ELSE term_0

\* C9, first half: the calibrated value of each factor
C9_FactorsCalibrated ==
    (pc # "new" /\ raised # "AttributeError") =>
        \A r \in Regs :
            IF ~with_reg[r] THEN scaling_factor[r] = NoValue
            ELSE IF loss_perc[r] = NoPerc THEN scaling_factor[r] = One
            ELSE Times(scaling_factor[r], Floored(base_term[r]))
                     = Times(loss_perc[r], base_loss)

\* C9: each factor has its calibrated value and no step of start() changes it
C9_ScalingFactors ==
    /\ []C9_FactorsCalibrated
    /\ [][pc # "new" => scaling_factor' = scaling_factor]_vars

\* a finished run with a floored factor and a factor of exactly 1
C9_Witness ==
    /\ pc = "done" /\ Len(iter_log) >= 1
    /\ \E r \in Regs : with_reg[r] /\ loss_perc[r] # NoPerc /\ Less(base_term[r], Eps)
                       /\ scaling_factor[r] # One
    /\ \E r \in Regs : with_reg[r] /\ loss_perc[r] = NoPerc /\ scaling_factor[r] = One

(***************************************************************************)
(* C10: for every enabled regularizer with percentage p # -1 the weighted  *)
(* contribution scaling_factor * value to the objective of iteration 0 is  *)
(* p * loss_0, or p * loss_0 * term_0 / eps when term_0 < eps.             *)
(* As stated, for every seeding policy, this fails: the calibration        *)
(* evaluates the base mesh, iteration 0 the seeded mesh.  It holds for the *)
(* 'zeros' policy, whose iteration 0 evaluates the base mesh.              *)
(***************************************************************************)
CalibratedShare(r) ==
    IF Less(base_term[r], Eps)
    THEN Over(Times(Times(loss_perc[r], base_loss), base_term[r]), Eps)
    ELSE Times(loss_perc[r], base_loss)

InitialContributionCalibrated ==
    \A r \in Regs :
        (with_reg[r] /\ loss_perc[r] # NoPerc /\ Logged(0)) =>
            Times(scaling_factor[r], LogOf(0).reg_value[r]) = CalibratedShare(r)

\* C10 as stated: the calibrated share at iteration 0, for every seeding policy
C10_AnySeeding == InitialContributionCalibrated

\* C10 amended: the calibrated share at iteration 0, for the 'zeros' policy
C10_ZerosSeeding == init_mode = "zeros" => InitialContributionCalibrated

\* iteration 0 of a zero-seeded run, with one term floored and one not
C10_Witness ==
    /\ init_mode = "zeros" /\ Logged(0)
    /\ \E r \in Regs : with_reg[r] /\ loss_perc[r] # NoPerc /\ Less(base_term[r], Eps)
    /\ \E r \in Regs : with_reg[r] /\ loss_perc[r] # NoPerc /\ ~Less(base_term[r], Eps)

(***************************************************************************)
(* C11: in the candidate mesh of every iteration the offset of each        *)
(* constrained vertex is zero in all three components, and the offset of   *)
(* each free vertex is the current row of the displacement parameter.      *)
(***************************************************************************)
\* the candidate mesh of the iteration is built and the parameter not stepped
MeshBuilt == pc \in {"checkpoint", "evaluate", "track", "wandb", "backward", "step"}

IsConstrained(v) == \A j \in 1..Len(non_constrained_vertices) : non_constrained_vertices[j] # v

\* C11: zero offset at the constrained vertices, the parameter rows at the
\* free ones, in the candidate mesh and in every mesh that was evaluated
C11_OffsetOfCandidateMesh ==
    /\ MeshBuilt =>
          \A v \in Vertices :
              IF IsConstrained(v)
              THEN iteration_mesh[v][1] = 0 /\ iteration_mesh[v][2] = 0
                   /\ iteration_mesh[v][3] = 0
              ELSE \A j \in 1..Len(non_constrained_vertices) :
                       non_constrained_vertices[j] = v =>
                           iteration_mesh[v] = displacements[j]
    /\ \A i \in 1..Len(iter_log) :
          \A v \in Vertices : IsConstrained(v) => iter_log[i].mesh[v] = ZeroRow

\* a later iteration evaluates a parameter that the optimizer has moved
C11_Witness ==
    /\ pc = "evaluate" /\ current_iteration >= 1
    /\ displacements[1] # ZeroRow
    /\ displacements[1][1] # displacements[1][3]
    /\ displacements \notin Seeds(init_mode)

(***************************************************************************)
(* C12: the displacement parameter is advanced by momentum gradient        *)
(* descent: the velocity v is zero at first, each iteration sets v to      *)
(* momentum * v + grad and the parameter to param - lr * v, and v is       *)
(* carried from one iteration to the next; with momentum = 0 the updated   *)
(* parameter is param - lr * grad exactly.                                 *)
(***************************************************************************)
\* learning rates and momenta of the optimizer, iterations of one call
DescentIter == 2
PlainSetups == {[r \in Regs |-> [on |-> FALSE, perc |-> NoPerc, term_0 |-> Num(3, 1)]]}

InitDescent == InitFull(PlainSetups, {"zeros", "uniform"}, 0..DescentIter, {FALSE}, {1},
                        {FALSE}, {1, 2}, {0, 2}, StructVals, 1)

SpecDescent == InitDescent /\ [][Next]_vars

Components == {<<j, c>> : j \in 1..Len(non_constrained_vertices), c \in 1..3}

\* C12: the velocity starts at zero, the step applies the momentum rule to
\* every component, and no other step touches the velocity
C12_MomentumDescent ==
    /\ [](pc = "ready" => velocity = ZeroTensor(Len(non_constrained_vertices)))
    /\ [][pc = "step" =>
            \A e \in Components :
                /\ velocity'[e[1]][e[2]]
                       = momentum * velocity[e[1]][e[2]] + grad[e[1]][e[2]]
                /\ displacements'[e[1]][e[2]]
                       = displacements[e[1]][e[2]] - lr * velocity'[e[1]][e[2]]]_vars
    /\ [][(pc = "step" /\ momentum = 0) =>
            \A e \in Components :
                displacements'[e[1]][e[2]]
                    = displacements[e[1]][e[2]] - lr * grad[e[1]][e[2]]]_vars
    /\ [][pc \notin {"new", "step"} => velocity' = velocity]_vars

\* the second step of a run with momentum 2 and lr 2: the velocity holds the
\* first gradient twice plus the second
C12_Witness ==
    /\ pc = "clean" /\ current_iteration = 1
    /\ momentum = 2 /\ lr = 2
    /\ velocity[1] = <<3, 0, -3>>
    /\ init_mode = "zeros" /\ displacements[1] = <<-8, 0, 8>>

(***************************************************************************)
(* C13: with an init_mode that is none of 'stress_aided', 'uniform',       *)
(* 'normal', 'zeros' the construction fails; the failure is not caught or  *)
(* retried, no iteration of the loop runs and no file is written.          *)
(***************************************************************************)
\* every seeding policy and a name that is none of them
ModesIter == 1
OtherModes == {"random"}

InitModesAndOthers == InitFull(PlainSetups, InitModes \cup OtherModes, 0..ModesIter,
                               BOOLEAN, {1}, {FALSE}, {1}, {1}, StructVals, 1)

SpecModes == InitModesAndOthers /\ [][Next]_vars

\* C13: an unsupported init_mode ends the construction with an exception,
\* after which nothing happens: no call of start(), no iteration, no file
C13_UnsupportedModeFails ==
    init_mode \notin InitModes =>
        /\ pc \in {"new", "raised"}
        /\ pc = "new" => ENABLED Construct
        /\ pc = "raised" => raised = "AttributeError" /\ ~ENABLED Next
        /\ displacements = NoMesh
        /\ calls = 0 /\ iter_count = 0
        /\ iter_log = <<>> /\ op_log = <<>> /\ files = <<>>

\* the failed construction
C13_Witness == init_mode \notin InitModes /\ pc = "raised" /\ raised = "AttributeError"

(***************************************************************************)
(* C14: each iteration performs, exactly once and in this order: clear     *)
(* the gradients, evaluate the structural loss, compute the gradients,     *)
(* apply the optimizer step, release the structural-loss collaborator's    *)
(* state; the release of iteration i precedes the structural evaluation    *)
(* of iteration i + 1.                                                     *)
(***************************************************************************)
OrderOfIteration == <<"zero_grad", "structural_loss", "backward", "step", "clean_attributes">>

\* C14: the operations happen round by round in the order of OrderOfIteration,
\* round i belonging to iteration i; a complete loop has made n_iter rounds;
\* a later iteration's structural evaluation starts from a released collaborator
C14_OrderOfIteration ==
    /\ \A k \in 1..Len(op_log) :
          op_log[k] = Op(OrderOfIteration[((k - 1) % Len(OrderOfIteration)) + 1],
                          (k - 1) \div Len(OrderOfIteration))
    /\ (pc = "final_save" \/ StartEnded) => Len(op_log) = Len(OrderOfIteration) * n_iter
    /\ (pc = "evaluate" /\ current_iteration >= 1) => ~graph_held

\* the structural evaluation of the third iteration is about to happen
C14_Witness ==
    /\ pc = "evaluate" /\ current_iteration = 2
    /\ Len(op_log) = 2 * Len(OrderOfIteration) + 1
    /\ ~graph_held

(***************************************************************************)
(* C15: within an iteration the best-state snapshot is compared and        *)
(* overwritten as the last step, only after the gradient computation, the  *)
(* optimizer step and the release of the collaborator's state.             *)
(* The code compares and overwrites it right after the objective is        *)
(* assembled (lines 139-157), before the gradient computation of line 172. *)
(***************************************************************************)
Happened(name, i) == \E k \in 1..Len(op_log) : op_log[k] = Op(name, i)

\* C15 as stated: when the snapshot is compared, the gradient computation,
\* the optimizer step and the release of the same iteration have happened
C15_SnapshotUpdatedLast ==
    pc = "track" =>
        /\ Happened("backward", current_iteration)
        /\ Happened("step", current_iteration)
        /\ Happened("clean_attributes", current_iteration)

\* the snapshot has been compared with the objective of the current iteration
Compared ==
    /\ ~Less(loss, best_loss)
    /\ best_iteration = current_iteration => best_loss = loss

\* C15 amended: the snapshot is compared and overwritten directly after the
\* objective of the iteration was evaluated and before its gradient
\* computation, optimizer step and release, and by no other step of the loop
C15_SnapshotUpdatedBeforeGradients ==
    /\ [](pc = "track" =>
             /\ op_log[Len(op_log)] = Op("structural_loss", current_iteration)
             /\ ~Happened("backward", current_iteration))
    /\ [](pc \in {"wandb", "backward", "step", "clean"} => Compared)
    /\ [][pc \notin {"ready", "done", "track"} => UNCHANGED bestVars]_vars

\* a later iteration has overwritten the snapshot and not yet computed gradients
C15_Witness ==
    /\ pc = "backward" /\ current_iteration >= 1
    /\ best_iteration = current_iteration /\ best_loss = loss
    /\ op_log[Len(op_log)] = Op("structural_loss", current_iteration)

(***************************************************************************)
(* C16: the displacement parameter has exactly one writer: only the        *)
(* optimizer step changes its values, every other step of start() leaves   *)
(* it unchanged, and it has one row per free vertex in every state; the    *)
(* base mesh and the vertex partition are never changed by start().        *)
(***************************************************************************)
\* C16: outside the construction only the optimizer step changes the
\* parameter and the step does change it; the parameter keeps one row of
\* three components per free vertex; the values of the base mesh stay
C16_OneWriter ==
    /\ [][pc \notin {"new", "step"} => displacements' = displacements]_vars
    /\ [][pc # "new" => Len(displacements') = Len(displacements)]_vars
    /\ []((pc # "new" /\ raised # "AttributeError") =>
             /\ Len(displacements) = Len(non_constrained_vertices)
             /\ \A j \in 1..Len(displacements) : Len(displacements[j]) = 3)
    /\ [][UNCHANGED <<base_loss, base_term>>]_vars

\* after an iteration the parameter holds what the optimizer step wrote
C16_Witness ==
    /\ pc = "for" /\ iter_count >= 1
    /\ displacements \notin Seeds(init_mode)
    /\ Len(displacements) = Len(non_constrained_vertices)

(***************************************************************************)
(* C17: if the total objective of some iteration is NaN, that iteration    *)
(* does not update the best-state snapshot and raises no error, and from   *)
(* then on the snapshot stays frozen at the last finite best for the rest  *)
(* of the run: no later iteration overwrites it.                           *)
(* The first half holds.  The second does not: the comparison of line 140  *)
(* is false for a NaN loss, so best_loss never becomes NaN, and a later    *)
(* iteration with a loss strictly below it overwrites the snapshot.        *)
(***************************************************************************)
\* a structural loss that is finite or NaN on displaced meshes
NaNIter == 3
NaNStructVals == {Num(1, 1), Num(2, 1), NaN}

InitNaN == InitFull(PlainSetups, {"zeros", "uniform"}, 0..NaNIter, BOOLEAN, {1},
                    {FALSE}, {1}, {1}, NaNStructVals, 1)

SpecNaN == InitNaN /\ [][Next]_vars

\* some iteration of the call, the current one included, had a NaN objective
NaNObserved == \E j \in 1..Len(iter_log) : iter_log[j].loss = NaN

SinkIter == 2
SinkSetups ==
    [Regs -> {[on |-> FALSE, perc |-> NoPerc, term_0 |-> Num(3, 1)],
              [on |-> TRUE, perc |-> NoPerc, term_0 |-> Num(3, 1)]}]

InitSink == InitFull(SinkSetups, {"zeros", "uniform"}, 0..SinkIter, {FALSE}, {1},
                     {TRUE}, {1}, {1}, StructVals, 1)

SpecSink == InitSink /\ [][Next]_vars

\* C18: a run with a sink ends without an error, having delivered one log
\* mapping per iteration and the summary of the best iteration
C18_EveryIterationLogged ==
    (wandb_run /\ StartEnded) =>
        /\ raised = "none"
        /\ Len(wandb_log) = n_iter
        /\ \A j \in 1..Len(wandb_log) : wandb_log[j].iteration = j - 1
        /\ n_iter >= 1 =>
              wandb_summary = [best_iteration |-> best_iteration, at_best |-> at_best]

(***************************************************************************)
(* C19: with saving disabled the value of save_interval has no influence   *)
(* on the run, the value 0 included: the same iterations run, and no file  *)
(* is written and no error raised.                                         *)
(***************************************************************************)
\* runs with and without saving, for every interval from 0
IntervalIter == 2

InitInterval == InitFull(PlainSetups, {"zeros", "uniform"}, 0..IntervalIter, BOOLEAN,
                         0..MaxInterval, {FALSE}, {1}, {1}, StructVals, 1)

SpecInterval == InitInterval /\ [][Next]_vars

\* C19: a run without saving ends without an error and without a file,
\* after n_iter complete iterations, whatever save_interval is
C19_IntervalWithoutInfluence ==
    (~save /\ StartEnded) =>
        /\ raised = "none"
        /\ files = <<>>
        /\ Len(iter_log) = n_iter
        /\ Len(op_log) = Len(OrderOfIteration) * n_iter

(***************************************************************************)
(* C20: a second call of start() on the same optimizer restarts the best   *)
(* tracking from best_loss = +inf and iteration index 0 but does not       *)
(* reseed the displacement parameter: its iteration 0 evaluates the        *)
(* displacement left by the last step of the previous call, and the        *)
(* momentum velocity of the previous call is carried into its first step.  *)
(***************************************************************************)
\* calls of start() on one optimizer, one after the other
MaxCalls == 2
AgainIter == 2

InitAgain == InitFull(PlainSetups, {"zeros", "uniform"}, 0..AgainIter, BOOLEAN, {1},
                      {FALSE}, {1}, {1}, StructVals, MaxCalls)

SpecAgain == InitAgain /\ [][Next]_vars

\* C20: what follows a finished call is a call that resets the best tracking
\* and the iteration index and keeps the parameter and the velocity; nothing
\* before its first optimizer step changes them; its iteration 0 evaluates
\* the kept parameter and its first step applies the momentum rule to the
\* kept velocity
C20_SecondCallContinues ==
    /\ [][pc = "done" =>
             /\ pc' = "for" /\ calls' = calls + 1
             /\ best_loss' = Inf /\ best_iteration' = Unbound
             /\ current_iteration' = 0 /\ iter_count' = 0
             /\ displacements' = displacements /\ velocity' = velocity]_vars
    /\ [][pc \notin {"new", "step"} => UNCHANGED <<displacements, velocity>>]_vars
    /\ []((calls >= 2 /\ MeshBuilt /\ current_iteration = 0) =>
             iteration_mesh = Offset(displacements))
    /\ [][(calls >= 2 /\ pc = "step") =>
             \A e \in Components :
                 velocity'[e[1]][e[2]]
                     = momentum * velocity[e[1]][e[2]] + grad[e[1]][e[2]]]_vars

\* the first step of a second call on a zero-seeded optimizer: its iteration 0
\* evaluated a displaced mesh, and the velocity holds both calls' gradients
C20_Witness ==
    /\ calls = 2 /\ pc = "clean" /\ current_iteration = 0
    /\ init_mode = "zeros" /\ iteration_mesh # BaseMesh
    /\ LogOf(0).mesh = iteration_mesh
    /\ velocity[1] = <<2, 0, -2>>
    /\ best_iteration = 0

====
